---- MODULE Spec2Model ----
(***************************************************************************)
(* Model of clover.py: the Clover batch/closeout monthly CSV report.       *)
(*                                                                         *)
(* Representation choices                                                  *)
(*  - A Python dict is a function whose DOMAIN is the set of keys present. *)
(*    JSON null is the record Null, the empty dict is EmptyDict.            *)
(*  - createdTime (epoch milliseconds) is the pair [d, ms] standing for    *)
(*    d * 86400000 + ms with 0 <= ms < 86400000: the plain number does     *)
(*    not fit the model checker's integers.                                *)
(*  - An amount in currency units (cents / 100) is kept as its number of   *)
(*    hundredths; "{x:.2f}" is modelled by Format2.                        *)
(*  - A formatted date "YYYY-MM-DD" is [y, m, d] with m and d as two       *)
(*    decimal digits; the literal "Unknown" is the record Unknown.         *)
(*  - A file name is [stem, ym]: the fixed text and the (year, month)      *)
(*    pairs formatted into it.                                             *)
(***************************************************************************)
EXTENDS Integers, Sequences, FiniteSets, TLC

VARIABLES
    pc,           \* control position of the run
    tz,           \* offset of local time from UTC, in milliseconds
    pool,         \* batch records the remote may hold
    args,         \* parsed command line (argparse namespace)
    environ,      \* os.environ credentials
    config,       \* config.py module, or NoConfig
    year_months,  \* main: list of (year, month)
    idx,          \* main / export_multiple_months_csv: loop position
    client,       \* CloverAPI instance, or NoClient
    call,         \* frame of the export being executed
    response,     \* outcome of the last GET
    batches,      \* get_closeouts_by_month: filtered_batches
    monthly_data, \* generate_monthly_csv_data: all_dates_data
    all_data,     \* export_multiple_months_csv: all_data and grand totals
    files,        \* file system: file name -> content
    log,          \* requests issued and files written, in order
    batch,        \* _format_single_batch: argument
    batch_info    \* _format_single_batch: result

vars == <<pc, tz, pool, args, environ, config, year_months, idx, client, call,
          response, batches, monthly_data, all_data, files, log, batch, batch_info>>

(***************************************************************************)
(* Bounds                                                                  *)
(***************************************************************************)
MaxBatches == 2

MaxMonths == 2

(***************************************************************************)
(* Python values                                                           *)
(***************************************************************************)
None == [none |-> TRUE]

Null == [null |-> TRUE]

EmptyDict == [k \in {} |-> 0]

\* d.get(k, default)
Get(d, k, default) == IF k \in DOMAIN d THEN d[k] ELSE default

\* truth value of a dict-or-null
Truthy(d) == d # Null /\ DOMAIN d # {}

RECURSIVE SumOver(_, _)
\* sum(f(row) for row in s)
SumOver(s, field) ==
    IF s = <<>> THEN 0 ELSE s[1][field] + SumOver(Tail(s), field)

(***************************************************************************)
(* Calendar (datetime, calendar)                                           *)
(***************************************************************************)
MsPerDay == 24 * 60 * 60 * 1000

IsLeap(y) == (y % 4 = 0) /\ ((y % 100 # 0) \/ (y % 400 = 0))

\* calendar.monthrange(year, month)[1]
DaysInMonth(y, m) ==
    IF m = 2 THEN (IF IsLeap(y) THEN 29 ELSE 28)
    ELSE IF m \in {4, 6, 9, 11} THEN 30 ELSE 31

\* datetime._days_before_year
DaysBeforeYear(y) ==
    LET p == y - 1 IN p * 365 + (p \div 4) - (p \div 100) + (p \div 400)

\* datetime._DAYS_BEFORE_MONTH
DAYS_BEFORE_MONTH == <<0, 31, 59, 90, 120, 151, 181, 212, 243, 273, 304, 334>>

\* datetime._days_before_month
DaysBeforeMonth(y, m) ==
    DAYS_BEFORE_MONTH[m] + (IF m > 2 /\ IsLeap(y) THEN 1 ELSE 0)

\* datetime._ymd2ord
Ymd2Ord(y, m, d) == DaysBeforeYear(y) + DaysBeforeMonth(y, m) + d

EpochOrd == Ymd2Ord(1970, 1, 1)

\* datetime._DAYS_BEFORE_MONTH[month] + (month > 2 and leapyear)
Preceding(month, leapyear) ==
    DAYS_BEFORE_MONTH[month] + (IF month > 2 /\ leapyear THEN 1 ELSE 0)

\* datetime._ord2ymd
Ord2Ymd(ordinal) ==
    LET di400 == 400 * 365 + 97
        di100 == 100 * 365 + 24
        di4   == 4 * 365 + 1
        n0    == ordinal - 1
        n400  == n0 \div di400
        r400  == n0 % di400
        n100  == r400 \div di100
        r100  == r400 % di100
        n4    == r100 \div di4
        r4    == r100 % di4
        n1    == r4 \div 365
        n     == r4 % 365
        year  == n400 * 400 + 1 + n100 * 100 + n4 * 4 + n1
        leapyear == n1 = 3 /\ (n4 # 24 \/ n100 = 3)
        guess == (n + 50) \div 32
        month == IF Preceding(guess, leapyear) > n THEN guess - 1 ELSE guess
    IN IF n1 = 4 \/ n100 = 4
       THEN [year |-> year - 1, month |-> 12, day |-> 31]
       ELSE [year |-> year, month |-> month,
             day |-> n - Preceding(month, leapyear) + 1]

\* datetime.fromtimestamp(ts / 1000): the local date and time of day
FromTimestamp(ts, offset) ==
    LET t   == ts.ms + offset
        day == ts.d + (IF t < 0 THEN -1 ELSE IF t >= MsPerDay THEN 1 ELSE 0)
        ymd == Ord2Ymd(EpochOrd + day)
    IN [year |-> ymd.year, month |-> ymd.month, day |-> ymd.day,
        ms |-> (t + MsPerDay) % MsPerDay]

\* the timestamp of a local date and time of day
Timestamp(y, m, d, msOfDay, offset) ==
    LET t   == msOfDay - offset
        day == Ymd2Ord(y, m, d) - EpochOrd
    IN [d  |-> day + (IF t < 0 THEN -1 ELSE IF t >= MsPerDay THEN 1 ELSE 0),
        ms |-> (t + MsPerDay) % MsPerDay]

Pad2(n) == <<n \div 10, n % 10>>

\* "%Y-%m-%d" and f"{year}-{month:02d}-{day:02d}"
DateStr(y, m, d) == [y |-> y, m |-> Pad2(m), d |-> Pad2(d)]

Unknown == [unknown |-> TRUE]

TimeZero == [d |-> 0, ms |-> 0]

(***************************************************************************)
(* CloverAPI._format_single_batch                                          *)
(***************************************************************************)
\* mutant: tips counted whatever tips.count is
TipCentsAnyCount(batch_totals) ==
    LET tips == Get(batch_totals, "tips", EmptyDict) IN
    IF Truthy(tips) THEN Get(tips, "total", 0) ELSE 0

\* tips count only when tips.count > 0
TipCents(batch_totals) ==
    LET tips == Get(batch_totals, "tips", EmptyDict) IN
    IF Truthy(tips) /\ Get(tips, "count", 0) > 0
    THEN Get(tips, "total", 0) ELSE 0

SalesCents(batch_totals) ==
    LET sales == Get(batch_totals, "sales", EmptyDict) IN
    IF Truthy(sales) THEN Get(sales, "total", 0) ELSE 0

CreatedDate(b, offset) ==
    LET created_time == Get(b, "createdTime", TimeZero) IN
    IF created_time # TimeZero
    THEN LET dt == FromTimestamp(created_time, offset)
         IN DateStr(dt.year, dt.month, dt.day)
    ELSE Unknown

FormatSingleBatch(b, offset) ==
    LET details      == Get(b, "batchDetails", Null)
        batch_totals == IF Truthy(details)
                        THEN Get(details, "batchTotals", EmptyDict) ELSE EmptyDict
        sales_amount == IF Truthy(batch_totals) THEN SalesCents(batch_totals) ELSE 0
        tip_amount   == IF Truthy(batch_totals) THEN TipCents(batch_totals) ELSE 0
        debit        == IF Truthy(batch_totals) THEN sales_amount - tip_amount ELSE 0
    IN [date  |-> CreatedDate(b, offset),
        debit |-> debit,
        tip   |-> tip_amount,
        total |-> sales_amount]

(***************************************************************************)
(* CloverAPI.get_closeouts_by_month                                        *)
(***************************************************************************)
Failed == [status |-> "failed", elements |-> <<>>]

Ok(elements) == [status |-> "ok", elements |-> elements]

\* every list of at most MaxBatches records of the pool, each at most once
Pages(p) ==
    UNION {{e \in [1..n -> p] : \A j, k \in 1..n : j # k => e[j] # e[k]} :
           n \in 0..MaxBatches}

\* mutant: the year of the batch is not compared
InMonthAnyYear(b, year, month, offset) ==
    LET batch_timestamp == Get(b, "createdTime", TimeZero) IN
    /\ batch_timestamp # TimeZero
    /\ FromTimestamp(batch_timestamp, offset).month = month

\* the test of lines 95-98 on one record
InMonth(b, year, month, offset) ==
    LET batch_timestamp == Get(b, "createdTime", TimeZero) IN
    /\ batch_timestamp # TimeZero
    /\ LET batch_date == FromTimestamp(batch_timestamp, offset)
       IN batch_date.year = year /\ batch_date.month = month

\* the value returned for the outcome r of the GET
FilteredBatches(r, year, month, offset) ==
    IF r.status = "failed" THEN <<>>
    ELSE SelectSeq(r.elements, LAMBDA b : InMonth(b, year, month, offset))

\* mutant: a failed GET propagates out of get_closeouts_by_month
GetCloseoutsRaising ==
    /\ pc = "fetch"
    /\ \E r \in {Failed} \cup {Ok(e) : e \in Pages(pool)} :
         /\ response' = r
         /\ batches' = FilteredBatches(r, call.year, call.month, tz)
         /\ pc' = IF r.status = "failed" THEN "raised" ELSE "generate"
    /\ log' = Append(log, [op |-> "GET", name |-> None, what |-> <<"batches", 0, 0>>])
    /\ UNCHANGED <<tz, pool, args, environ, config, year_months, idx, client,
                   call, monthly_data, all_data, files, batch, batch_info>>

GetCloseoutsByMonth ==
    /\ pc = "fetch"
    /\ \E r \in {Failed} \cup {Ok(e) : e \in Pages(pool)} :
         /\ response' = r
         /\ batches' = FilteredBatches(r, call.year, call.month, tz)
    /\ log' = Append(log, [op |-> "GET", name |-> None, what |-> <<"batches", 0, 0>>])
    /\ pc' = "generate"
    /\ UNCHANGED <<tz, pool, args, environ, config, year_months, idx, client,
                   call, monthly_data, all_data, files, batch, batch_info>>

(***************************************************************************)
(* CloverAPI.generate_monthly_csv_data                                     *)
(***************************************************************************)
ZeroRow(date) == [date |-> date, debit |-> 0, tip |-> 0, total |-> 0]

\* mutant: the summary replaces the row instead of being added to it
AddToOverwrite(row, info) ==
    [date |-> row.date, debit |-> info.debit, tip |-> info.tip, total |-> info.total]

\* lines 223-225: add one summary to the row of its date
AddTo(row, info) ==
    [date  |-> row.date,
     debit |-> row.debit + info.debit,
     tip   |-> row.tip + info.tip,
     total |-> row.total + info.total]

RECURSIVE DailyData(_, _, _)
\* lines 209-225: daily_data after the loop over the batches bs
DailyData(bs, daily, offset) ==
    IF bs = <<>> THEN daily
    ELSE LET info == FormatSingleBatch(Head(bs), offset)
             old  == IF info.date \in DOMAIN daily
                     THEN daily[info.date] ELSE ZeroRow(info.date)
             new  == AddTo(old, info)
         IN DailyData(Tail(bs),
                      [d \in DOMAIN daily \cup {info.date} |->
                          IF d = info.date THEN new ELSE daily[d]],
                      offset)

\* mutant: range(1, num_days) leaves out the last day
AllDatesDataShort(year, month, daily) ==
    [day \in 1..(DaysInMonth(year, month) - 1) |->
        LET date_str == DateStr(year, month, day) IN
        IF date_str \in DOMAIN daily THEN daily[date_str] ELSE ZeroRow(date_str)]

\* lines 228-244: one row per day of the month
AllDatesData(year, month, daily) ==
    [day \in 1..DaysInMonth(year, month) |->
        LET date_str == DateStr(year, month, day) IN
        IF date_str \in DOMAIN daily THEN daily[date_str] ELSE ZeroRow(date_str)]

GenerateMonthlyCsvData ==
    /\ pc = "generate"
    /\ monthly_data' = AllDatesData(call.year, call.month,
                                    DailyData(batches, EmptyDict, tz))
    /\ pc' = IF call.fn = "export_monthly_csv" THEN "write" ELSE "collect"
    /\ UNCHANGED <<tz, pool, args, environ, config, year_months, idx, client,
                   call, response, batches, all_data, files, log, batch, batch_info>>

(***************************************************************************)
(* CSV output                                                              *)
(***************************************************************************)
Abs(n) == IF n < 0 THEN -n ELSE n

\* f"{x:.2f}" of an amount of c hundredths: sign, integer part, two decimals
Format2(c) == [neg |-> c < 0, whole |-> Abs(c) \div 100, frac |-> Pad2(Abs(c) % 100)]

\* the amount, in hundredths, that a formatted cell reads as
Parse2(cell) ==
    (IF cell.neg THEN -1 ELSE 1) * (cell.whole * 100 + cell.frac[1] * 10 + cell.frac[2])

\* lines 280-285 and 347-352: one written row
CsvRow(row) ==
    [date  |-> row.date,
     debit |-> Format2(row.debit),
     tip   |-> Format2(row.tip),
     total |-> Format2(row.total)]

CsvRows(data) == [k \in 1..Len(data) |-> CsvRow(data[k])]

\* the trailing row of a file
TotalsRow(label, debit, tip, total) ==
    [date  |-> label,
     debit |-> Format2(debit),
     tip   |-> Format2(tip),
     total |-> Format2(total)]

\* f"clover_monthly_data_{year}_{month:02d}.csv"
MonthlyName(year, month) ==
    [stem |-> "clover_monthly_data", ym |-> <<<<year, Pad2(month)>>>>]

\* f"clover_combined_months_{months_str}.csv"
CombinedName(yms) ==
    [stem |-> "clover_combined_months",
     ym   |-> [k \in 1..Len(yms) |-> <<yms[k][1], Pad2(yms[k][2])>>]]

\* open(filename, 'w') followed by the writes, then close
WriteFile(fs, name, content) ==
    [n \in DOMAIN fs \cup {name} |-> IF n = name THEN content ELSE fs[n]]

\* mutant: the totals leave out the last daily row
MonthlyContentShortTotal(year, month, data) ==
    LET most == SubSeq(data, 1, Len(data) - 1) IN
    [title |-> <<"Sales for the month of", <<year, month>>>>,
     rows  |-> CsvRows(data),
     last  |-> TotalsRow("TOTAL", SumOver(most, "debit"), SumOver(most, "tip"),
                         SumOver(most, "total"))]

\* lines 264-293: the file export_monthly_csv writes for monthly_data
MonthlyContent(year, month, data) ==
    [title |-> <<"Sales for the month of", <<year, month>>>>,
     rows  |-> CsvRows(data),
     last  |-> TotalsRow("TOTAL", SumOver(data, "debit"), SumOver(data, "tip"),
                         SumOver(data, "total"))]

\* lines 258-259
MonthlyFilename(c) ==
    IF c.filename = None THEN MonthlyName(c.year, c.month) ELSE c.filename

ExportMonthlyCsv ==
    /\ pc = "write"
    /\ LET filename == MonthlyFilename(call) IN
       /\ files' = WriteFile(files, filename,
                             MonthlyContent(call.year, call.month, monthly_data))
       /\ log' = Append(log, [op |-> "write", name |-> filename,
                               what |-> <<"month", call.year, call.month>>])
    /\ pc' = call.ret
    /\ UNCHANGED <<tz, pool, args, environ, config, year_months, idx, client,
                   call, response, batches, monthly_data, all_data, batch, batch_info>>

\* what is left of content when writing stops after its first j rows
Partial(content, j) ==
    [title |-> content.title, rows |-> SubSeq(content.rows, 1, j),
     last |-> [date |-> ""]]

\* the file system after open(filename, 'w') or a write into the file raised:
\* untouched when open raised, else the file with none or all of its daily rows
FailedWrites(fs, name, content) ==
    {[stage |-> "open", files |-> fs]}
    \cup {[stage |-> "write", files |-> WriteFile(fs, name, Partial(content, j))] :
             j \in {0, Len(content.rows)}}

\* mutant: the error is swallowed inside export_monthly_csv, which returns
ExportMonthlyCsvSwallows ==
    /\ pc = "write"
    /\ LET filename == MonthlyFilename(call) IN
       \E f \in FailedWrites(files, filename,
                             MonthlyContent(call.year, call.month, monthly_data)) :
         /\ files' = f.files
         /\ log' = Append(log, [op |-> "raise", name |-> filename,
                                 what |-> <<f.stage, call.year, call.month>>])
    /\ pc' = call.ret
    /\ UNCHANGED <<tz, pool, args, environ, config, year_months, idx, client,
                   call, response, batches, monthly_data, all_data, batch, batch_info>>

\* lines 270-293 raising (OSError): the exception leaves export_monthly_csv
ExportMonthlyCsvFails ==
    /\ pc = "write"
    /\ LET filename == MonthlyFilename(call) IN
       \E f \in FailedWrites(files, filename,
                             MonthlyContent(call.year, call.month, monthly_data)) :
         /\ files' = f.files
         /\ log' = Append(log, [op |-> "raise", name |-> filename,
                                 what |-> <<f.stage, call.year, call.month>>])
    /\ pc' = "except"
    /\ UNCHANGED <<tz, pool, args, environ, config, year_months, idx, client,
                   call, response, batches, monthly_data, all_data, batch, batch_info>>

(***************************************************************************)
(* CloverAPI.export_multiple_months_csv                                    *)
(***************************************************************************)
NoData == [rows |-> <<>>, debit |-> 0, tip |-> 0, total |-> 0]

\* mutant: the grand totals are assigned, not accumulated
CollectedOverwrite(acc, data) ==
    [rows  |-> acc.rows \o data,
     debit |-> SumOver(data, "debit"),
     tip   |-> SumOver(data, "tip"),
     total |-> SumOver(data, "total")]

\* lines 321-330: extend all_data and the grand totals by one month
Collected(acc, data) ==
    [rows  |-> acc.rows \o data,
     debit |-> acc.debit + SumOver(data, "debit"),
     tip   |-> acc.tip + SumOver(data, "tip"),
     total |-> acc.total + SumOver(data, "total")]

\* lines 309-311
CombinedFilename(c) ==
    IF c.filename = None THEN CombinedName(c.year_months) ELSE c.filename

\* lines 333-360
CombinedContent(yms, acc) ==
    [title |-> <<"Sales for the months of", yms>>,
     rows  |-> CsvRows(acc.rows),
     last  |-> TotalsRow("GRAND TOTAL", acc.debit, acc.tip, acc.total)]

\* the frame of generate_monthly_csv_data for the k-th month of the list
CombinedCall(c, k) ==
    [c EXCEPT !.year = c.year_months[k][1], !.month = c.year_months[k][2]]

\* one turn of the loop of lines 319-330, after generate_monthly_csv_data
CollectMonth ==
    /\ pc = "collect"
    /\ all_data' = Collected(all_data, monthly_data)
    /\ IF idx < Len(call.year_months)
       THEN /\ idx' = idx + 1
            /\ call' = CombinedCall(call, idx + 1)
            /\ pc' = "fetch"
       ELSE /\ pc' = "write_combined"
            /\ UNCHANGED <<idx, call>>
    /\ UNCHANGED <<tz, pool, args, environ, config, year_months, client,
                   response, batches, monthly_data, files, log, batch, batch_info>>

WriteCombined ==
    /\ pc = "write_combined"
    /\ LET filename == CombinedFilename(call) IN
       /\ files' = WriteFile(files, filename,
                             CombinedContent(call.year_months, all_data))
       /\ log' = Append(log, [op |-> "write", name |-> filename,
                               what |-> <<"months", 0, 0>>])
    /\ pc' = call.ret
    /\ UNCHANGED <<tz, pool, args, environ, config, year_months, idx, client,
                   call, response, batches, monthly_data, all_data, batch, batch_info>>

\* lines 337-360 raising (OSError): the exception leaves export_multiple_months_csv
WriteCombinedFails ==
    /\ pc = "write_combined"
    /\ LET filename == CombinedFilename(call) IN
       \E f \in FailedWrites(files, filename,
                             CombinedContent(call.year_months, all_data)) :
         /\ files' = f.files
         /\ log' = Append(log, [op |-> "raise", name |-> filename,
                                 what |-> <<f.stage, 0, 0>>])
    /\ pc' = "except"
    /\ UNCHANGED <<tz, pool, args, environ, config, year_months, idx, client,
                   call, response, batches, monthly_data, all_data, batch, batch_info>>

(***************************************************************************)
(* main                                                                    *)
(***************************************************************************)
Str(text) == [str |-> text]

\* "not v" for a string or None
Falsy(v) == v = None \/ v = Str("")

NoConfig == [missing |-> TRUE]

NoClient == [none |-> TRUE]

ValueError == [ok |-> FALSE, val |-> 0]

\* int(text) on the texts a month token is drawn from
PyInt(text) ==
    CASE text = "0"  -> [ok |-> TRUE, val |-> 0]
      [] text = "2"  -> [ok |-> TRUE, val |-> 2]
      [] text = "12" -> [ok |-> TRUE, val |-> 12]
      [] text = "13" -> [ok |-> TRUE, val |-> 13]
      [] OTHER       -> ValueError

\* mutant: only the first month of a list is range-checked
ParseMonthsFirstOnly(a) ==
    LET n      == Len(a.month)
        parsed == [k \in 1..n |-> PyInt(a.month[k])]
        yms    == [k \in 1..n |-> <<a.year, parsed[k].val>>]
    IN IF \E k \in 1..n : ~parsed[k].ok
       THEN [ok |-> FALSE, error |-> "Error: Invalid month format", year_months |-> <<>>]
       ELSE IF ~(1 <= parsed[1].val /\ parsed[1].val <= 12)
       THEN [ok |-> FALSE, error |-> "Error: Month must be between 1 and 12",
             year_months |-> <<>>]
       ELSE [ok |-> TRUE, error |-> "", year_months |-> yms]

\* lines 428-449; a.month is args.month split at its commas
ParseMonths(a) ==
    LET n      == Len(a.month)
        parsed == [k \in 1..n |-> PyInt(a.month[k])]
        yms    == [k \in 1..n |-> <<a.year, parsed[k].val>>]
    IN IF \E k \in 1..n : ~parsed[k].ok
       THEN [ok |-> FALSE, error |-> "Error: Invalid month format", year_months |-> <<>>]
       ELSE IF n = 1 /\ ~(1 <= parsed[1].val /\ parsed[1].val <= 12)
       THEN [ok |-> FALSE, error |-> "Error: Month must be between 1 and 12",
             year_months |-> <<>>]
       ELSE IF \E k \in 1..n : ~(1 <= yms[k][2] /\ yms[k][2] <= 12)
       THEN [ok |-> FALSE, error |-> "Error: Month {month} must be between 1 and 12",
             year_months |-> <<>>]
       ELSE [ok |-> TRUE, error |-> "", year_months |-> yms]

ParseArgs ==
    /\ pc = "main"
    /\ LET r == ParseMonths(args) IN
       IF r.ok
       THEN /\ year_months' = r.year_months
            /\ pc' = "credentials"
            /\ UNCHANGED log
       ELSE /\ log' = Append(log, [op |-> "print", name |-> Str(r.error),
                                   what |-> <<"error", 0, 0>>])
            /\ pc' = "done"
            /\ UNCHANGED year_months
    /\ UNCHANGED <<tz, pool, args, environ, config, idx, client, call, response,
                   batches, monthly_data, all_data, files, batch, batch_info>>

DefaultBaseUrl == Str("https://api.clover.com")

\* lines 366-372: os.getenv
LoadConfigFromEnv(env) ==
    [access_token |-> Get(env, "CLOVER_ACCESS_TOKEN", None),
     merchant_id  |-> Get(env, "CLOVER_MERCHANT_ID", None),
     base_url     |-> Get(env, "CLOVER_BASE_URL", DefaultBaseUrl)]

\* lines 375-390: import config, getattr with '' defaults
LoadConfigFromFile(cfg) ==
    IF cfg = NoConfig
    THEN [access_token |-> Str(""), merchant_id |-> Str(""), base_url |-> DefaultBaseUrl]
    ELSE [access_token |-> Get(cfg, "CLOVER_ACCESS_TOKEN", Str("")),
          merchant_id  |-> Get(cfg, "CLOVER_MERCHANT_ID", Str("")),
          base_url     |-> Get(cfg, "CLOVER_BASE_URL", DefaultBaseUrl)]

\* lines 452-467
Credentials(a, env, cfg) ==
    IF a.env THEN LoadConfigFromEnv(env)
    ELSE IF ~Falsy(a.token) /\ ~Falsy(a.merchant)
    THEN [access_token |-> a.token, merchant_id |-> a.merchant,
          base_url |-> DefaultBaseUrl]
    ELSE LoadConfigFromFile(cfg)

\* mutant: only the access token is tested
MissingTokenOnly(c) == Falsy(c.access_token)

\* line 469
MissingCredentials(c) == Falsy(c.access_token) \/ Falsy(c.merchant_id)

LoadCredentials ==
    /\ pc = "credentials"
    /\ IF MissingCredentials(Credentials(args, environ, config))
       THEN /\ log' = Append(log, [op |-> "print",
                                   name |-> Str("Error: Missing required credentials."),
                                   what |-> <<"error", 0, 0>>])
            /\ pc' = "done"
       ELSE /\ pc' = "client"
            /\ UNCHANGED log
    /\ UNCHANGED <<tz, pool, args, environ, config, year_months, idx, client, call,
                   response, batches, monthly_data, all_data, files, batch, batch_info>>

\* the frame of export_monthly_csv(year, month, filename)
MonthlyCall(ym, filename, ret) ==
    [fn |-> "export_monthly_csv", year |-> ym[1], month |-> ym[2],
     filename |-> filename, year_months |-> <<ym>>, ret |-> ret]

\* line 490: the single month is written to args.output
SingleCall(yms, a) == MonthlyCall(yms[1], a.output, "done")

\* mutant: the individual reports are written to args.output
IndividualCallToOutput(yms, a, k) == MonthlyCall(yms[k], a.output, "next_month")

\* lines 502-503: the k-th individual report is written to its derived name
IndividualCall(yms, a, k) ==
    MonthlyCall(yms[k], MonthlyName(yms[k][1], yms[k][2]), "next_month")

\* line 509: export_multiple_months_csv(year_months, args.output)
MultiCall(yms, a) ==
    [fn |-> "export_multiple_months_csv", year |-> yms[1][1], month |-> yms[1][2],
     filename |-> a.output, year_months |-> yms, ret |-> "done"]

\* lines 484-490
StartSingle ==
    /\ pc = "client"
    /\ Len(year_months) = 1
    /\ client' = Credentials(args, environ, config)
    /\ call' = SingleCall(year_months, args)
    /\ pc' = "fetch"
    /\ UNCHANGED <<tz, pool, args, environ, config, year_months, idx, response,
                   batches, monthly_data, all_data, files, log, batch, batch_info>>

\* lines 484-486 and the first turn of the loop of lines 501-505
StartMulti ==
    /\ pc = "client"
    /\ Len(year_months) # 1
    /\ client' = Credentials(args, environ, config)
    /\ idx' = 1
    /\ call' = IndividualCall(year_months, args, 1)
    /\ pc' = "fetch"
    /\ UNCHANGED <<tz, pool, args, environ, config, year_months, response,
                   batches, monthly_data, all_data, files, log, batch, batch_info>>

\* the next turn of the loop of lines 501-505
NextIndividual ==
    /\ pc = "next_month"
    /\ idx < Len(year_months)
    /\ idx' = idx + 1
    /\ call' = IndividualCall(year_months, args, idx + 1)
    /\ pc' = "fetch"
    /\ UNCHANGED <<tz, pool, args, environ, config, year_months, client, response,
                   batches, monthly_data, all_data, files, log, batch, batch_info>>

\* line 509, after the loop
StartCombined ==
    /\ pc = "next_month"
    /\ idx = Len(year_months)
    /\ idx' = 1
    /\ all_data' = NoData
    /\ call' = MultiCall(year_months, args)
    /\ pc' = "fetch"
    /\ UNCHANGED <<tz, pool, args, environ, config, year_months, client, response,
                   batches, monthly_data, files, log, batch, batch_info>>

\* lines 517-520: except Exception, print the message and the trace, fall off main
HandleException ==
    /\ pc = "except"
    /\ log' = Append(log, [op |-> "print", name |-> Str("Script execution failed"),
                           what |-> <<"error", 0, 0>>])
    /\ pc' = "done"
    /\ UNCHANGED <<tz, pool, args, environ, config, year_months, idx, client, call,
                   response, batches, monthly_data, all_data, files, batch, batch_info>>

(***************************************************************************)
(* Batch records the remote may return                                     *)
(***************************************************************************)
Amounts == {0, 1500, 10000}

\* the "sales" entry of batchTotals: absent, null, empty, or with fields
SalesParts ==
    {EmptyDict}
    \cup {"sales" :> v : v \in {Null, EmptyDict, "count" :> 3}}
    \cup {"sales" :> ("total" :> a @@ "count" :> 3) : a \in Amounts}

\* the "tips" entry of batchTotals
TipsParts ==
    {EmptyDict}
    \cup {"tips" :> v : v \in {Null, EmptyDict, "count" :> 2}}
    \cup {"tips" :> ("total" :> a) : a \in Amounts \ {0}}
    \cup {"tips" :> ("total" :> a @@ "count" :> c) : a \in Amounts \ {0}, c \in {0, 2}}

BatchTotalsChoices == {s @@ t : s \in SalesParts, t \in TipsParts}

\* the "batchDetails" entry of a batch
DetailsParts ==
    {EmptyDict}
    \cup {"batchDetails" :> v : v \in {Null, EmptyDict, "batchType" :> 1}}
    \cup {"batchDetails" :> ("batchTotals" :> bt) : bt \in BatchTotalsChoices \cup {Null}}

\* batchDetails with sales and tips totals, in cents
Details(sales, tipCount, tips) ==
    "batchDetails" :> ("batchTotals" :>
        ("sales" :> ("total" :> sales @@ "count" :> 3)
         @@ "tips" :> ("total" :> tips @@ "count" :> tipCount)))

At(t) == "createdTime" :> t

Noon == 12 * 60 * 60 * 1000

LastMs == MsPerDay - 1

NextMonth(y, m) == IF m = 12 THEN <<y + 1, 1>> ELSE <<y, m + 1>>

PrevMonth(y, m) == IF m = 1 THEN <<y - 1, 12>> ELSE <<y, m - 1>>

\* timestamps at and around the boundaries of a month, and the degenerate ones
BoundaryTimes(y, m, offset) ==
    LET n == NextMonth(y, m)
        p == PrevMonth(y, m)
        last == DaysInMonth(y, m)
    IN {EmptyDict, At(TimeZero),
        At(Timestamp(p[1], p[2], DaysInMonth(p[1], p[2]), LastMs, offset)),
        At(Timestamp(y, m, 1, 0, offset)),
        At(Timestamp(y, m, 15, Noon, offset)),
        At(Timestamp(y, m, last, LastMs - 999, offset)),
        At(Timestamp(y, m, last, LastMs - 998, offset)),
        At(Timestamp(y, m, last, LastMs, offset)),
        At(Timestamp(n[1], n[2], 1, 0, offset)),
        At(Timestamp(y + 1, m, 15, Noon, offset))}

Years == {2023, 2024}

Offsets == {-5 * 60 * 60 * 1000, 0, 9 * 60 * 60 * 1000}

\* the state outside the operation a specification starts in
Idle ==
    /\ args = None
    /\ environ = EmptyDict
    /\ config = NoConfig
    /\ year_months = <<>>
    /\ idx = 0
    /\ response = None
    /\ batches = <<>>
    /\ monthly_data = <<>>
    /\ all_data = NoData
    /\ files = EmptyDict
    /\ log = <<>>

(***************************************************************************)
(* _format_single_batch on every shape of record                           *)
(***************************************************************************)
BatchUniverse ==
    {t @@ d : t \in {EmptyDict, At(TimeZero), At(Timestamp(2024, 2, 29, Noon, 0))},
              d \in DetailsParts}

InitBatch ==
    /\ pc = "format"
    /\ tz = 0
    /\ pool = {}
    /\ client = NoClient
    /\ call = None
    /\ batch \in BatchUniverse
    /\ batch_info = None
    /\ Idle

FormatBatch ==
    /\ pc = "format"
    /\ batch_info' = FormatSingleBatch(batch, tz)
    /\ pc' = "done"
    /\ UNCHANGED <<tz, pool, args, environ, config, year_months, idx, client, call,
                   response, batches, monthly_data, all_data, files, log, batch>>

SpecBatch == InitBatch /\ [][FormatBatch]_vars

(***************************************************************************)
(* get_closeouts_by_month on pages of records around the month's bounds    *)
(***************************************************************************)
TestClient == [access_token |-> Str("token"), merchant_id |-> Str("merchant"),
               base_url |-> DefaultBaseUrl]

InitFilter ==
    /\ pc = "fetch"
    /\ tz \in Offsets
    /\ client = TestClient
    /\ \E y \in Years, m \in 1..12 :
         /\ call = MonthlyCall(<<y, m>>, None, "done")
         /\ pool = BoundaryTimes(y, m, tz)
    /\ batch = None
    /\ batch_info = None
    /\ Idle

SpecFilter == InitFilter /\ [][GetCloseoutsByMonth]_vars

(***************************************************************************)
(* export_monthly_csv of one month                                         *)
(***************************************************************************)
\* records on the first and last day of the month, after it, and undated
MonthPool(y, m) ==
    LET n == NextMonth(y, m) IN
    {t @@ d :
       t \in {At(Timestamp(y, m, 1, 0, 0)),
              At(Timestamp(y, m, DaysInMonth(y, m), LastMs, 0)),
              At(Timestamp(n[1], n[2], 1, 0, 0))},
       d \in {EmptyDict, Details(10000, 1, 1500), Details(5000, 0, 700)}}
    \cup {At(TimeZero) @@ Details(10000, 1, 1500)}

InitMonth ==
    /\ pc = "fetch"
    /\ tz = 0
    /\ client = TestClient
    /\ \E y \in Years, m \in 1..12 :
         /\ call = MonthlyCall(<<y, m>>, None, "done")
         /\ pool = MonthPool(y, m)
    /\ batch = None
    /\ batch_info = None
    /\ Idle

NextMonthly == GetCloseoutsByMonth \/ GenerateMonthlyCsvData \/ ExportMonthlyCsv

SpecMonth == InitMonth /\ [][NextMonthly]_vars

(***************************************************************************)
(* A run of main                                                           *)
(***************************************************************************)
MonthTexts == {"2", "12", "0", "13", "abc"}

\* args.month, split at its commas
MonthLists == UNION {[1..n -> MonthTexts] : n \in 1..MaxMonths}

OutputNames == {None, [stem |-> "report.csv", ym |-> <<>>], MonthlyName(2024, 2)}

\* which credential source is selected, and what each source holds
CredentialCases ==
    LET both == "CLOVER_ACCESS_TOKEN" :> Str("token") @@ "CLOVER_MERCHANT_ID" :> Str("merchant")
        noMerchant == "CLOVER_ACCESS_TOKEN" :> Str("token")
        emptyToken == "CLOVER_ACCESS_TOKEN" :> Str("") @@ "CLOVER_MERCHANT_ID" :> Str("merchant")
        case(e, t, m, env, cfg) ==
            [env |-> e, token |-> t, merchant |-> m, environ |-> env, config |-> cfg]
    IN {case(TRUE, None, None, both, NoConfig),
        case(TRUE, None, None, noMerchant, both),
        case(TRUE, Str("token"), Str("merchant"), EmptyDict, both),
        case(FALSE, Str("token"), Str("merchant"), EmptyDict, NoConfig),
        case(FALSE, Str("token"), None, both, NoConfig),
        case(FALSE, Str("token"), None, EmptyDict, both),
        case(FALSE, None, None, both, emptyToken),
        case(FALSE, None, None, EmptyDict, noMerchant),
        case(FALSE, None, None, EmptyDict, both)}

\* one closeout on 10 February and one on 31 December of the year asked for
MainPool(y) ==
    {At(Timestamp(y, 2, 10, Noon, 0)) @@ Details(10000, 1, 1500),
     At(Timestamp(y, 12, 31, LastMs, 0)) @@ Details(5000, 0, 700)}

Init ==
    /\ pc = "main"
    /\ tz = 0
    /\ \E c \in CredentialCases, ms \in MonthLists, o \in OutputNames :
         /\ args = [year |-> 2024, month |-> ms, output |-> o,
                    env |-> c.env, token |-> c.token, merchant |-> c.merchant]
         /\ environ = c.environ
         /\ config = c.config
    /\ pool = MainPool(args.year)
    /\ year_months = <<>>
    /\ idx = 0
    /\ client = NoClient
    /\ call = None
    /\ response = None
    /\ batches = <<>>
    /\ monthly_data = <<>>
    /\ all_data = NoData
    /\ files = EmptyDict
    /\ log = <<>>
    /\ batch = None
    /\ batch_info = None

Next ==
    \/ ParseArgs
    \/ LoadCredentials
    \/ StartSingle
    \/ StartMulti
    \/ GetCloseoutsByMonth
    \/ GenerateMonthlyCsvData
    \/ ExportMonthlyCsv
    \/ NextIndividual
    \/ StartCombined
    \/ CollectMonth
    \/ WriteCombined
    \/ ExportMonthlyCsvFails
    \/ WriteCombinedFails
    \/ HandleException

Spec == Init /\ [][Next]_vars

(***************************************************************************)
(* Properties                                                              *)
(***************************************************************************)
Requests == SelectSeq(log, LAMBDA e : e.op = "GET")

Writes == SelectSeq(log, LAMBDA e : e.op = "write")

Prints == SelectSeq(log, LAMBDA e : e.op = "print")

\* "YYYY-MM-DD" strings compared as text
DateLess(a, b) ==
    LET ka == <<a.y, a.m[1], a.m[2], a.d[1], a.d[2]>>
        kb == <<b.y, b.m[1], b.m[2], b.d[1], b.d[2]>>
    IN \E k \in 1..5 : ka[k] < kb[k] /\ \A j \in 1..(k - 1) : ka[j] = kb[j]

\* the date string of the k-th day counted from the first of the month
NthDate(y, m, k) ==
    LET ymd == Ord2Ymd(Ymd2Ord(y, m, 1) + k - 1) IN DateStr(ymd.year, ymd.month, ymd.day)

\* the number of days from the first of the month to the first of the next
MonthLength(y, m) ==
    LET n == NextMonth(y, m) IN Ymd2Ord(n[1], n[2], 1) - Ymd2Ord(y, m, 1)

\* data is one row per calendar day of the month, in order
CoversMonth(data, y, m) ==
    /\ Len(data) = MonthLength(y, m)
    /\ \A k \in 1..Len(data) :
         /\ data[k].date # Unknown
         /\ data[k].date.y = y /\ data[k].date.m = Pad2(m)
         /\ data[k].date = NthDate(y, m, k)
    /\ \A k \in 1..(Len(data) - 1) : DateLess(data[k].date, data[k + 1].date)

Generated == pc \in {"write", "done"}

\* C1: whatever the GET returned (a page, an empty page or a failure),
\* generate_monthly_csv_data returns one row per calendar day of the month,
\* first to last, strictly ascending, none dated outside the month or "Unknown".
C1_OneRowPerDay == Generated => CoversMonth(monthly_data, call.year, call.month)

C1_Witness ==
    /\ pc = "write"
    /\ call.year = 2024 /\ call.month = 2
    /\ Len(response.elements) = 2 /\ Len(batches) = 1
    /\ Len(monthly_data) = 29

TsLeq(a, b) == a.d < b.d \/ (a.d = b.d /\ a.ms <= b.ms)

TsLess(a, b) == a.d < b.d \/ (a.d = b.d /\ a.ms < b.ms)

\* local midnight of the first day of the month
MonthStart(y, m) == Timestamp(y, m, 1, 0, tz)

\* local midnight of the first day of the next month (January of y + 1 after December)
NextMonthStart(y, m) == LET n == NextMonth(y, m) IN Timestamp(n[1], n[2], 1, 0, tz)

\* the end boundary: the start of the next month minus one second
MonthEnd(y, m) ==
    LET n == NextMonthStart(y, m) IN
    IF n.ms >= 1000 THEN [d |-> n.d, ms |-> n.ms - 1000]
    ELSE [d |-> n.d - 1, ms |-> n.ms - 1000 + MsPerDay]

HasTime(b) == "createdTime" \in DOMAIN b

InClosedInterval(b) ==
    /\ HasTime(b)
    /\ TsLeq(MonthStart(call.year, call.month), b.createdTime)
    /\ TsLeq(b.createdTime, MonthEnd(call.year, call.month))

InHalfOpenInterval(b) ==
    /\ HasTime(b)
    /\ b.createdTime # TimeZero
    /\ TsLeq(MonthStart(call.year, call.month), b.createdTime)
    /\ TsLess(b.createdTime, NextMonthStart(call.year, call.month))

Fetched == pc = "generate" /\ response.status = "ok"

\* C2 as claimed: the batches returned are exactly those of the page with
\* createdTime in [first day 00:00:00, last day 23:59:59].
C2_ClosedInterval ==
    Fetched => batches = SelectSeq(response.elements, InClosedInterval)

\* C2: the batches returned are exactly those of the fetched page, in page
\* order, whose createdTime is present, non-zero and at or after the first day
\* of the month 00:00:00 and before the first day of the next month 00:00:00
\* (January 1 of year+1 for December), local time.
C2_HalfOpenInterval ==
    Fetched => batches = SelectSeq(response.elements, InHalfOpenInterval)

C2_Witness ==
    /\ Fetched
    /\ call.month = 12
    /\ Len(response.elements) = 2 /\ Len(batches) = 1
    /\ HasTime(response.elements[2])
    /\ batches[1].createdTime = Timestamp(call.year, 12, 31, LastMs, tz)
    /\ response.elements[2].createdTime = Timestamp(call.year + 1, 1, 1, 0, tz)

RECURSIVE Dig(_, _)
\* the number at a path of keys, zero when any level is missing, null or empty
Dig(d, path) ==
    IF path = <<>> THEN d
    ELSE IF d = Null \/ Head(path) \notin DOMAIN d THEN 0
    ELSE Dig(d[Head(path)], Tail(path))

Totals == <<"batchDetails", "batchTotals">>

\* C3: total = sales.total/100; tip = tips.total/100 only when tips.count > 0,
\* else 0; debit = total - tip; a missing batchDetails, batchTotals, sales or
\* tips gives zero for its amount; debit + tip = total (amounts in hundredths).
C3_Summary ==
    pc = "done" =>
        /\ batch_info.total = Dig(batch, Totals \o <<"sales", "total">>)
        /\ batch_info.tip = IF Dig(batch, Totals \o <<"tips", "count">>) > 0
                            THEN Dig(batch, Totals \o <<"tips", "total">>) ELSE 0
        /\ batch_info.debit = batch_info.total - batch_info.tip
        /\ batch_info.debit + batch_info.tip = batch_info.total

C3_Witness ==
    /\ pc = "done"
    /\ batch_info.total = 10000 /\ batch_info.tip = 1500 /\ batch_info.debit = 8500

\* the summaries of the filtered batches
Summaries == [k \in 1..Len(batches) |-> FormatSingleBatch(batches[k], tz)]

Columns == {"debit", "tip", "total"}

\* C4: each day's row holds, per column, the sum over the summaries of the
\* filtered batches dated that day (zero when there is none); every filtered
\* batch is dated on exactly one row, and the rows sum to the batches' sum.
C4_DailySums ==
    Generated =>
        LET infos == Summaries IN
        /\ \A k \in 1..Len(monthly_data) :
             LET on == SelectSeq(infos, LAMBDA info : info.date = monthly_data[k].date)
             IN \A c \in Columns : monthly_data[k][c] = SumOver(on, c)
        /\ \A j \in 1..Len(infos) :
             Cardinality({k \in 1..Len(monthly_data) :
                             monthly_data[k].date = infos[j].date}) = 1
        /\ \A c \in Columns : SumOver(monthly_data, c) = SumOver(infos, c)

C4_Witness ==
    /\ Generated
    /\ Len(batches) = 2
    /\ monthly_data[1] = [date |-> DateStr(call.year, call.month, 1),
                          debit |-> 13500, tip |-> 1500, total |-> 15000]
    /\ monthly_data[2].total = 0

\* the column sums of the written rows, read back from their text
WrittenSum(rows, c) == SumOver([k \in 1..Len(rows) |-> [v |-> Parse2(rows[k][c])]], "v")

MonthlyFile == files[MonthlyFilename(call)]

\* C5: the file ends with a TOTAL row holding the column sums of the daily
\* rows written above it, and there are exactly days_in_month daily rows.
C5_TotalRow ==
    pc = "done" =>
        /\ MonthlyFilename(call) \in DOMAIN files
        /\ Len(MonthlyFile.rows) = DaysInMonth(call.year, call.month)
        /\ MonthlyFile.last.date = "TOTAL"
        /\ \A c \in Columns :
             Parse2(MonthlyFile.last[c]) = WrittenSum(MonthlyFile.rows, c)
        /\ \A k \in 1..Len(MonthlyFile.rows), c \in Columns :
             Parse2(MonthlyFile.rows[k][c]) = monthly_data[k][c]

C5_Witness ==
    /\ pc = "done"
    /\ Len(batches) = 2
    /\ Parse2(MonthlyFile.last.total) = 15000
    /\ Parse2(MonthlyFile.last.tip) = 1500
    /\ Parse2(MonthlyFile.rows[1].total) = 10000

\* the combined export has written its file
CombinedDone ==
    /\ pc = "done"
    /\ Len(year_months) >= 2
    /\ Len(Writes) = Len(year_months) + 1

CombinedFile == files[CombinedFilename(call)]

\* the rows of the requested months before the k-th
RowsBefore(k) ==
    SumOver([j \in 1..(k - 1) |->
                [v |-> DaysInMonth(year_months[j][1], year_months[j][2])]], "v")

\* the rows of the k-th requested month in the combined file
MonthRows(k) ==
    SubSeq(CombinedFile.rows, RowsBefore(k) + 1, RowsBefore(k + 1))

\* the combined file holds the months' daily rows in input order and as many
\* rows as the months have days, and ends with a GRAND TOTAL row
ConcatenatedMonths ==
    /\ CombinedFilename(call) \in DOMAIN files
    /\ Len(CombinedFile.rows) = RowsBefore(Len(year_months) + 1)
    /\ \A k \in 1..Len(year_months) :
         \A d \in 1..DaysInMonth(year_months[k][1], year_months[k][2]) :
             CombinedFile.rows[RowsBefore(k) + d].date =
                 DateStr(year_months[k][1], year_months[k][2], d)
    /\ CombinedFile.last.date = "GRAND TOTAL"

\* C6 as claimed: the GRAND TOTAL row also equals the sum of the TOTAL rows of
\* the individual per-month files written by the same run.
C6_MatchesIndividualFiles ==
    CombinedDone =>
        /\ ConcatenatedMonths
        /\ \A c \in Columns :
             Parse2(CombinedFile.last[c]) =
                 SumOver([k \in 1..Len(year_months) |->
                     [v |-> Parse2(files[MonthlyName(year_months[k][1],
                                                    year_months[k][2])].last[c])]], "v")

\* C6: the combined file holds the daily rows of the requested months
\* concatenated in input order (a month listed twice appears twice), as many
\* rows as the months have days, and its GRAND TOTAL row equals the sum of the
\* per-month totals of the rows the combined export itself fetched and wrote.
C6_GrandTotal ==
    CombinedDone =>
        /\ ConcatenatedMonths
        /\ \A c \in Columns :
             Parse2(CombinedFile.last[c]) =
                 SumOver([k \in 1..Len(year_months) |->
                             [v |-> WrittenSum(MonthRows(k), c)]], "v")

C6_Witness ==
    /\ CombinedDone
    /\ year_months = <<<<2024, 2>>, <<2024, 2>>>>
    /\ Len(CombinedFile.rows) = 58
    /\ Parse2(CombinedFile.rows[10].total) = 10000
    /\ Parse2(CombinedFile.rows[39].total) = 10000
    /\ Parse2(CombinedFile.last.total) = 20000

AllZero(row) == \A c \in Columns : row[c] = 0

ReadsZero(row) == \A c \in Columns : Parse2(row[c]) = 0

FetchFailed == pc # "fetch" /\ response.status = "failed"

\* C7: when the GET fails, get_closeouts_by_month returns an empty list after
\* that single request, the export goes on, and the file it writes has
\* days_in_month all-zero rows and a zero TOTAL row.
C7_FailedFetchIsEmptyMonth ==
    FetchFailed =>
        /\ batches = <<>>
        /\ Len(Requests) = 1
        /\ pc # "done" => ENABLED NextMonthly
        /\ Generated =>
             /\ Len(monthly_data) = DaysInMonth(call.year, call.month)
             /\ \A k \in 1..Len(monthly_data) : AllZero(monthly_data[k])
        /\ pc = "done" =>
             /\ MonthlyFilename(call) \in DOMAIN files
             /\ Len(MonthlyFile.rows) = DaysInMonth(call.year, call.month)
             /\ \A k \in 1..Len(MonthlyFile.rows) : ReadsZero(MonthlyFile.rows[k])
             /\ MonthlyFile.last.date = "TOTAL" /\ ReadsZero(MonthlyFile.last)

C7_Witness ==
    /\ FetchFailed
    /\ pc = "done"
    /\ Len(Writes) = 1
    /\ Len(MonthlyFile.rows) = 30

ValidMonthTexts == {"1", "2", "3", "4", "5", "6", "7", "8", "9", "10", "11", "12"}

\* --month is non-numeric or names a month outside 1..12, in any position
InvalidMonthArg == \E k \in 1..Len(args.month) : args.month[k] \notin ValidMonthTexts

NothingDone ==
    /\ client = NoClient
    /\ Requests = <<>>
    /\ Writes = <<>>
    /\ DOMAIN files = {}

\* C8: with an invalid --month, main prints one error and returns: it never
\* loads credentials, constructs the client, issues a request or writes a file.
C8_InvalidMonthAborts ==
    InvalidMonthArg =>
        /\ pc \in {"main", "done"}
        /\ NothingDone
        /\ year_months = <<>>
        /\ pc = "done" => Len(log) = 1 /\ Len(Prints) = 1

C8_Witness ==
    /\ pc = "done"
    /\ args.month = <<"2", "13">>
    /\ ~MissingCredentials(Credentials(args, environ, config))
    /\ Len(Prints) = 1
    /\ NothingDone

\* the source --env, --token with --merchant, or config.py selects
SelectedSource ==
    IF args.env THEN "env"
    ELSE IF args.token \notin {None, Str("")} /\ args.merchant \notin {None, Str("")}
    THEN "flags" ELSE "file"

\* the access token and merchant id the selected source holds (None when absent)
ResolvedPair ==
    LET keys == <<"CLOVER_ACCESS_TOKEN", "CLOVER_MERCHANT_ID">> IN
    CASE SelectedSource = "env"   -> [k \in 1..2 |-> Get(environ, keys[k], None)]
      [] SelectedSource = "flags" -> <<args.token, args.merchant>>
      [] SelectedSource = "file"  ->
            IF config = NoConfig THEN <<None, None>>
            ELSE [k \in 1..2 |-> Get(config, keys[k], None)]

CredentialsMissing == \E k \in 1..2 : ResolvedPair[k] \in {None, Str("")}

\* C9: when the access token or merchant id of the selected source is empty
\* or absent, main prints the guidance and returns: no client is constructed,
\* no request is issued and no file is written.
C9_MissingCredentialsAbort ==
    CredentialsMissing =>
        /\ pc \in {"main", "credentials", "done"}
        /\ NothingDone
        /\ (pc = "done" /\ ~InvalidMonthArg) =>
             /\ Len(log) = 1
             /\ Prints[1].name = Str("Error: Missing required credentials.")

C9_Witness ==
    /\ pc = "done"
    /\ args.env /\ "CLOVER_MERCHANT_ID" \notin DOMAIN environ
    /\ config # NoConfig
    /\ year_months = <<<<2024, 2>>, <<2024, 12>>>>
    /\ Len(Prints) = 1
    /\ NothingDone

\* the name --output gives, or else the derived one
OutputOr(derived) == IF args.output = None THEN derived ELSE args.output

\* C10: with two or more months the k-th write is the k-th month's report
\* under its derived name whatever --output is, and the write after them is
\* the combined report under --output (or its derived name); with one month
\* the single write is the month's report under --output (or its derived name).
C10_OutputNames ==
    LET n == Len(year_months) IN
    /\ Len(Writes) <= (IF n = 1 THEN 1 ELSE n + 1)
    /\ \A k \in 1..Len(Writes) :
         IF n = 1
         THEN /\ Writes[k].what = <<"month", year_months[1][1], year_months[1][2]>>
              /\ Writes[k].name =
                     OutputOr(MonthlyName(year_months[1][1], year_months[1][2]))
         ELSE IF k <= n
         THEN /\ Writes[k].what = <<"month", year_months[k][1], year_months[k][2]>>
              /\ Writes[k].name = MonthlyName(year_months[k][1], year_months[k][2])
         ELSE /\ Writes[k].what[1] = "months"
              /\ Writes[k].name = OutputOr(CombinedName(year_months))

C10_Witness ==
    /\ pc = "done"
    /\ year_months = <<<<2024, 2>>, <<2024, 12>>>>
    /\ args.output = [stem |-> "report.csv", ym |-> <<>>]
    /\ DOMAIN files = {MonthlyName(2024, 2), MonthlyName(2024, 12), args.output}
    /\ files[args.output].last.date = "GRAND TOTAL"
    /\ files[MonthlyName(2024, 12)].last.date = "TOTAL"

Raises == SelectSeq(log, LAMBDA e : e.op = "raise")

\* the names of the files completely written so far
WrittenNames == {Writes[j].name : j \in 1..Len(Writes)}

Complete(content) == content.last.date \in {"TOTAL", "GRAND TOTAL"}

\* with two or more months: the k-th write is the k-th month's report, and
\* the combined report is written after all of them
ReportsInInputOrder ==
    LET n == Len(year_months) IN
    n >= 2 =>
        /\ Len(Writes) <= n + 1
        /\ \A k \in 1..Len(Writes) :
             IF k <= n
             THEN Writes[k].what = <<"month", year_months[k][1], year_months[k][2]>>
             ELSE Writes[k].what[1] = "months"

\* an export raised: main caught it, printed it, and did nothing else since
CaughtAndStopped ==
    /\ Len(Raises) = 1
    /\ pc \in {"except", "done"}
    /\ pc = "except" => log[Len(log)].op = "raise" /\ ENABLED HandleException
    /\ pc = "done" =>
         /\ log[Len(log) - 1].op = "raise"
         /\ log[Len(log)] = [op |-> "print", name |-> Str("Script execution failed"),
                             what |-> <<"error", 0, 0>>]

\* C11 as claimed: reports are exported in input order before the combined
\* one; an export that raises is caught, nothing more is requested or written,
\* and exactly the files of the months before the failing one are left, as
\* they were written, with no combined file.
C11_ExactlyEarlierFiles ==
    /\ ReportsInInputOrder
    /\ (Raises # <<>> /\ Len(year_months) >= 2) =>
         /\ CaughtAndStopped
         /\ DOMAIN files =
                {MonthlyName(year_months[j][1], year_months[j][2]) :
                     j \in 1..Len(Writes)}
         /\ \A f \in DOMAIN files : files[f].last.date = "TOTAL"

\* C11: reports are exported in input order, all before the combined one; an
\* export that raises is caught by main, which prints it, does not re-raise
\* and requests and writes nothing more; nothing is cleaned up: the files
\* written before are left as written, except that the file being written
\* when the failure occurred is left partially written (untouched or absent
\* when its open failed), and no complete combined file exists.
C11_FailureStopsRun ==
    /\ ReportsInInputOrder
    /\ Raises # <<>> =>
         /\ CaughtAndStopped
         /\ WrittenNames \subseteq DOMAIN files
         /\ DOMAIN files \subseteq WrittenNames \cup {Raises[1].name}
         /\ Raises[1].what[1] = "open" => DOMAIN files = WrittenNames
         /\ \A f \in DOMAIN files :
              /\ Complete(files[f]) <=>
                     ~(f = Raises[1].name /\ Raises[1].what[1] = "write")
              /\ files[f].last.date # "GRAND TOTAL"

C11_Witness ==
    /\ pc = "done"
    /\ year_months = <<<<2024, 2>>, <<2024, 12>>>>
    /\ Len(Writes) = 1
    /\ Raises = <<[op |-> "raise", name |-> MonthlyName(2024, 12),
                   what |-> <<"write", 2024, 12>>]>>
    /\ DOMAIN files = {MonthlyName(2024, 2), MonthlyName(2024, 12)}
    /\ Complete(files[MonthlyName(2024, 2)])
    /\ ~Complete(files[MonthlyName(2024, 12)])
    /\ Len(Requests) = 2

====
